---- MODULE Spec2Model ----
(***************************************************************************)
(* A model of src/app.py, the COVID-19 Streamlit dashboard script: the     *)
(* cached loader load_data (two candidate URLs tried in order), the        *)
(* sidebar controls, the country/date filter, the empty-view stop, the     *)
(* latest-per-location snapshot, the top-10 ranking and the scatter set.   *)
(*                                                                         *)
(* A script run is taken one step at a time: it blocks in each             *)
(* requests.get and hands control to Streamlit at each st.* call, and the  *)
(* clock, the candidates' answers and rerun requests change in between.    *)
(* The cache of load_data is shared by every session of the server: a      *)
(* second session calls load_data while the first one runs.                *)
(* DataFrame.sort_values does not fix the order of equal keys; every       *)
(* order it can leave them in is a possible result.                        *)
(*                                                                         *)
(* A table cell is an optional value: <<>> is pandas' missing value (NaN,  *)
(* NaT, None), <<v>> is the value v.  A calendar date is a day number.     *)
(* A DataFrame is a sequence of rows (records with the columns the script  *)
(* reads).                                                                 *)
(***************************************************************************)
EXTENDS Integers, Sequences, FiniteSets, TLC

VARIABLES
    clock,            \* seconds since the server started
    ticks,            \* how many times the clock has advanced (bounded)
    net,              \* what each candidate URL answers right now
    cache,            \* the single st.cache_data slot of load_data
    replaced,         \* the slot as it was before the last write
    lock,             \* who computes the value: 0 nobody, 1 this session's
                      \* run, 2 the other session's
    peer,             \* the other session's call of load_data
    phase,            \* where the script run is: "idle", "queued", "lock",
                      \* "request", "store", "cache_exit", "ran", or the
                      \* st.* call it is about to enter
    contacted,        \* URLs requested during this run, in order
    answered,         \* what each of those requests was answered
    last_error,       \* load_data's last_error
    loaded,           \* cell: the table the call of load_data returns
    outcome,          \* how the run ended
    raised,           \* the exception the run raised, if any
    df,               \* the script's df (line 31)
    selected_country, \* cell: the selectbox value
    date_range,       \* the date_input value
    start_date,
    end_date,
    filtered_df,
    latest,           \* cell: the row the KPIs are read from
    latest_all,
    top10,
    scatter_df,
    emitted           \* what this run has put on the page

envVars == <<clock, ticks, net, cache, replaced, lock, peer>>
loadVars == <<contacted, answered, last_error, loaded>>
viewVars == <<selected_country, date_range, start_date, end_date, filtered_df>>
chartVars == <<latest, latest_all, top10, scatter_df>>
vars == <<clock, ticks, net, cache, replaced, lock, peer, phase, contacted, answered,
          last_error, loaded, outcome, raised, df, selected_country, date_range, start_date, end_date, filtered_df,
          latest, latest_all, top10, scatter_df, emitted>>

----
\* Cells and small helpers

Missing == <<>>

Some(v) == <<v>>

isna(c) == c = Missing

notna(c) == c # Missing

Min2(a, b) == IF a <= b THEN a ELSE b

Range(s) == {s[i] : i \in 1..Len(s)}

SeqsUpTo(S, n) == UNION {[1..k -> S] : k \in 0..n}

----
\* The table model

\* Location names in the order sorted() and groupby's key sort give them.
LocOrder == <<"Aruba", "Benin", "Chad", "Cuba", "Fiji", "Ghana", "India", "Italy",
              "Japan", "Kenya", "Laos", "Mali", "Oman", "Peru", "Qatar", "World">>

\* ISO calendar texts; the day number of a text is its position.
IsoDates == <<"2020-01-01", "2020-01-02", "2020-01-03", "2020-01-04">>

MetricColumns == {"total_cases", "total_deaths", "people_fully_vaccinated_per_hundred",
                  "total_deaths_per_million"}

ValueColumns == {"date"} \cup MetricColumns

Row(loc, d, tc, td, pfv, tdpm) ==
    [location |-> loc, date |-> d, total_cases |-> tc, total_deaths |-> td,
     people_fully_vaccinated_per_hundred |-> pfv, total_deaths_per_million |-> tdpm]

\* Whether sort_values puts a row with cell x strictly before one with cell
\* y: missing values go last (na_position="last").
sorts_before(x, y, ascending) ==
    /\ notna(x)
    /\ \/ isna(y)
       \/ IF ascending THEN x[1] < y[1] ELSE x[1] > y[1]

RemoveAt(s, i) == SubSeq(s, 1, i - 1) \o SubSeq(s, i + 1, Len(s))

\* A sort that leaves the rows as they are.
sort_values_unsorted(frame, by, ascending) == {frame}

\* DataFrame.sort_values(by, ascending) with the default kind="quicksort":
\* the order of rows with equal keys is not fixed, so this is the set of
\* every arrangement of the rows that is in key order, missing keys last.
RECURSIVE sort_values(_, _, _)
sort_values(frame, by, ascending) ==
    IF frame = <<>> THEN {<<>>}
    ELSE LET first == {i \in 1..Len(frame) :
                          \A j \in 1..Len(frame) :
                              ~sorts_before(frame[j][by], frame[i][by], ascending)}
         IN UNION {{<<frame[i]>> \o rest :
                       rest \in sort_values(RemoveAt(frame, i), by, ascending)} :
                   i \in first}

----
\* load_data (src/app.py 13-29)

urls == <<"https://covid.ourworldindata.org/data/owid-covid-data.csv",
          "https://raw.githubusercontent.com/owid/covid-19-data/master/public/data/owid-covid-data.csv">>

\* 24 * 60 * 60
ttl == 86400

NoException == [type |-> "none", line |-> 0, cause |-> Missing]

\* What a candidate URL answers: whether the request completes at all, the
\* HTTP status, whether the body is well-formed CSV, and its rows, whose date
\* field is still text.
Response(reachable, status, wellformed, rows) ==
    [reachable |-> reachable, status |-> status, wellformed |-> wellformed,
     rows |-> rows]

\* r.raise_for_status(): 4xx and 5xx raise.
raise_for_status(status) == status >= 400 /\ status < 600

\* pd.read_csv on one date field: an empty field is a missing value.
read_csv_cell(text) == IF text = "" THEN Missing ELSE Some(text)

read_csv(rows) == [i \in 1..Len(rows) |-> [rows[i] EXCEPT !.date = read_csv_cell(@)]]

\* pd.to_datetime on one cell: missing stays missing (NaT), ISO text becomes
\* its day, anything else cannot be converted.
convertible(c) == isna(c) \/ c[1] \in Range(IsoDates)

to_datetime_cell(c) ==
    IF isna(c) THEN Missing
    ELSE Some(CHOOSE i \in 1..Len(IsoDates) : IsoDates[i] = c[1])

to_datetime(frame) ==
    [i \in 1..Len(frame) |-> [frame[i] EXCEPT !.date = to_datetime_cell(@)]]

\* The try block for one candidate (lines 22-26): the returned frame, or the
\* exception the except clause catches.
try_url(resp) ==
    IF ~resp.reachable
    THEN [ok |-> FALSE, df |-> <<>>, error |-> "ConnectionError"]
    ELSE IF raise_for_status(resp.status)
    THEN [ok |-> FALSE, df |-> <<>>, error |-> "HTTPError"]
    ELSE IF ~resp.wellformed
    THEN [ok |-> FALSE, df |-> <<>>, error |-> "ParserError"]
    ELSE IF \E i \in 1..Len(resp.rows) : ~convertible(read_csv(resp.rows)[i].date)
    THEN [ok |-> FALSE, df |-> <<>>, error |-> "ValueError"]
    ELSE [ok |-> TRUE, df |-> to_datetime(read_csv(resp.rows)), error |-> "none"]

\* A loop that goes on to the next candidate although this one succeeded.
after_try_no_return(t, i) ==
    IF i < Len(urls) THEN "next" ELSE IF t.ok THEN "return" ELSE "raise"

\* What the for loop does after the try block for candidate i: return df
\* (line 26), go on to the next url, or fall out of the loop to the raise at
\* line 29.
after_try(t, i) ==
    IF t.ok THEN "return" ELSE IF i < Len(urls) THEN "next" ELSE "raise"

\* An except clause that keeps the first error.
except_keep_first(last, t, url) ==
    IF isna(last) THEN Some([type |-> t.error, url |-> url]) ELSE last

\* except Exception as e: last_error = e (lines 27-28)
except_clause(last, t, url) == Some([type |-> t.error, url |-> url])

\* raise RuntimeError(f"... Last error: {last_error}") (line 29)
RuntimeError(last) == [type |-> "RuntimeError", line |-> 29, cause |-> last]

\* @st.cache_data(ttl=...): one slot, no arguments, shared by all sessions.
\* A stored value is served while it is younger than ttl (an older one stays
\* in the slot, unread, until it is overwritten); otherwise the function
\* body runs under the slot's lock, and its return value (never an
\* exception) is stored whole.
NoCache == [has |-> FALSE, value |-> <<>>, stamp |-> 0]

\* A stored value served one second too long.
cache_hit_late(slot, now) == slot.has /\ now <= slot.stamp + ttl

cache_hit(slot, now) == slot.has /\ now < slot.stamp + ttl

\* A session that has not called load_data.
NoCall == [phase |-> "idle", contacted |-> <<>>, loaded |-> Missing]

----
\* The script body (src/app.py 31-121)

\* sorted(df["location"].dropna().unique())
countries(frame) ==
    SelectSeq(LocOrder, LAMBDA n : \E i \in 1..Len(frame) : frame[i].location = Some(n))

\* countries.index("India") if "India" in countries else 0, as a 1-based position
default_index(names) ==
    IF "India" \in Range(names) THEN CHOOSE i \in 1..Len(names) : names[i] = "India"
    ELSE 1

\* What the selectbox returns before the user touches it: the option at
\* index, or None when there are no options.
selectbox_default(names) ==
    IF names = <<>> THEN Missing ELSE Some(names[default_index(names)])

valid_dates(frame) == {frame[i].date[1] : i \in {j \in 1..Len(frame) : notna(frame[j].date)}}

\* df["date"].min() and .max() skip NaT; NaT when no date is left.
min_date(frame) ==
    IF valid_dates(frame) = {} THEN Missing
    ELSE Some(CHOOSE d \in valid_dates(frame) : \A e \in valid_dates(frame) : d <= e)

max_date(frame) ==
    IF valid_dates(frame) = {} THEN Missing
    ELSE Some(CHOOSE d \in valid_dates(frame) : \A e \in valid_dates(frame) : d >= e)

\* A date_input value: a tuple of dates, or a bare date.
DateRange(is_tuple, dates) == [is_tuple |-> is_tuple, dates |-> dates]

\* Line 54: start_date, end_date = date_range if isinstance(date_range, tuple)
\* else (date_range, date_range).  Unpacking a tuple that does not hold
\* exactly two values raises ValueError.
unpack_raises(dr) == dr.is_tuple /\ Len(dr.dates) # 2

unpack(dr) ==
    IF dr.is_tuple THEN <<dr.dates[1], dr.dates[2]>> ELSE <<dr.dates[1], dr.dates[1]>>

\* The mask with the end of the range left out.
filter_mask_open_end(row, country, s, e) ==
    /\ notna(row.location) /\ notna(country) /\ row.location = country
    /\ notna(row.date) /\ row.date[1] >= s
    /\ notna(row.date) /\ row.date[1] < e

\* Lines 56-60: the boolean mask, row by row.  A comparison with a missing
\* cell is False.
filter_mask(row, country, s, e) ==
    /\ notna(row.location) /\ notna(country) /\ row.location = country
    /\ notna(row.date) /\ row.date[1] >= s
    /\ notna(row.date) /\ row.date[1] <= e

filtered_df_of(frame, country, s, e) ==
    SelectSeq(frame, LAMBDA row : filter_mask(row, country, s, e))

\* GroupBy.last() on one column of one group: the last value that is not
\* missing, missing when there is none.
group_last(group, col) ==
    LET present == {i \in 1..Len(group) : notna(group[i][col])} IN
    IF present = {} THEN Missing
    ELSE group[CHOOSE i \in present : \A j \in present : j <= i][col]

\* groupby("location").last().reset_index() on rows already in order: one
\* row per non-missing location, in key order.
groupby_last(sorted) ==
    LET keys == countries(sorted)
        group(k) == SelectSeq(sorted, LAMBDA row : row.location = Some(k))
    IN [n \in 1..Len(keys) |->
          [c \in ValueColumns \cup {"location"} |->
             IF c = "location" THEN Some(keys[n]) ELSE group_last(group(keys[n]), c)]]

\* Line 89: df.sort_values("date").groupby("location").last().reset_index(),
\* one snapshot for each order the sort can leave equal dates in.
latest_all_of(frame) == {groupby_last(sorted) : sorted \in sort_values(frame, "date", TRUE)}

\* Line 66: filtered_df.sort_values("date").iloc[-1], for a view with rows.
latest_of(view) == {sorted[Len(sorted)] : sorted \in sort_values(view, "date", TRUE)}

\* .head(n)
head(frame, n) == SubSeq(frame, 1, Min2(n, Len(frame)))

\* The ranking without the dropna: the records that lack the metric are
\* sorted to the end and fill the ranking up.
top10_keep_missing(snapshot) ==
    LET countries_only == SelectSeq(snapshot, LAMBDA row : row.location # Some("World"))
        kept == SelectSeq(countries_only, LAMBDA row : notna(row.total_deaths_per_million))
        lacking == SelectSeq(countries_only, LAMBDA row : isna(row.total_deaths_per_million))
    IN {head(sorted \o lacking, 10) :
           sorted \in sort_values(kept, "total_deaths_per_million", FALSE)}

\* Lines 92-93, one ranking for each order the sort can leave equal metrics in.
top10_of(snapshot) ==
    LET kept == SelectSeq(snapshot, LAMBDA row : notna(row.total_deaths_per_million))
        countries_only == SelectSeq(kept, LAMBDA row : row.location # Some("World"))
    IN {head(sorted, 10) :
           sorted \in sort_values(countries_only, "total_deaths_per_million", FALSE)}

\* Lines 104-108, the three columns of the scatter chart.
scatter_df_of(snapshot) ==
    LET cols == [i \in 1..Len(snapshot) |->
                   [people_fully_vaccinated_per_hundred |->
                        snapshot[i].people_fully_vaccinated_per_hundred,
                    total_deaths_per_million |-> snapshot[i].total_deaths_per_million,
                    location |-> snapshot[i].location]]
        complete == SelectSeq(cols, LAMBDA row :
                        /\ notna(row.people_fully_vaccinated_per_hundred)
                        /\ notna(row.total_deaths_per_million)
                        /\ notna(row.location))
    IN SelectSeq(complete, LAMBDA row : row.location # Some("World"))

\* A check that never finds the view empty.
empty_never(frame) == FALSE

\* DataFrame.empty (line 62)
empty(frame) == frame = <<>>

\* What date_input hands back before the user touches it: value=(min_date, max_date).
date_input_default(frame) ==
    IF isna(min_date(frame)) THEN DateRange(TRUE, <<>>)
    ELSE DateRange(TRUE, <<min_date(frame)[1], max_date(frame)[1]>>)

\* The values the selectbox can return: any option, None without options.
selectbox_values(names) ==
    IF names = <<>> THEN {Missing} ELSE {Some(n) : n \in Range(names)}

\* The values date_input can return: a tuple of two dates within
\* [min_value, max_value], a tuple of one date while only the start is
\* picked, an empty tuple, or a bare date.
date_input_values(frame) ==
    IF isna(min_date(frame)) THEN {DateRange(TRUE, <<>>)}
    ELSE LET days == min_date(frame)[1]..max_date(frame)[1] IN
         {DateRange(TRUE, <<s, e>>) : s \in days, e \in days}
         \cup {DateRange(TRUE, <<s>>) : s \in days}
         \cup {DateRange(TRUE, <<>>)}
         \cup {DateRange(FALSE, <<s>>) : s \in days}

----
\* A script run, step by step.  The run blocks in each requests.get, and
\* Streamlit can stop it for a newer run at the entry of each st.* call
\* (and of the cached function's wrapper), before the call sends anything.
\* phase names the call the run is about to enter; a step is that call
\* together with the code up to the entry of the next one.

\* The run's variables before its first line.
InitRun ==
    /\ contacted = <<>>
    /\ answered = <<>>
    /\ last_error = Missing
    /\ loaded = Missing
    /\ outcome = "none"
    /\ raised = NoException
    /\ df = <<>>
    /\ selected_country = Missing
    /\ date_range = DateRange(TRUE, <<>>)
    /\ start_date = Missing
    /\ end_date = Missing
    /\ filtered_df = <<>>
    /\ latest = Missing
    /\ latest_all = <<>>
    /\ top10 = <<>>
    /\ scatter_df = <<>>
    /\ emitted = {}

\* The queued run starts: a fresh module namespace and an empty page, and
\* lines 1-6 up to the entry of st.title.
Begin ==
    /\ phase = "queued"
    /\ contacted' = <<>>
    /\ answered' = <<>>
    /\ last_error' = Missing
    /\ loaded' = Missing
    /\ outcome' = "none"
    /\ raised' = NoException
    /\ df' = <<>>
    /\ selected_country' = Missing
    /\ date_range' = DateRange(TRUE, <<>>)
    /\ start_date' = Missing
    /\ end_date' = Missing
    /\ filtered_df' = <<>>
    /\ latest' = Missing
    /\ latest_all' = <<>>
    /\ top10' = <<>>
    /\ scatter_df' = <<>>
    /\ emitted' = {}
    /\ phase' = "title"
    /\ UNCHANGED envVars

\* Line 7: st.title.
Title ==
    /\ phase = "title"
    /\ emitted' = emitted \cup {"title"}
    /\ phase' = "markdown"
    /\ UNCHANGED <<envVars, loadVars, outcome, raised, df, viewVars, chartVars>>

\* Lines 8-11: st.markdown; then line 31 up to the entry of the cached
\* function's wrapper.
Markdown ==
    /\ phase = "markdown"
    /\ emitted' = emitted \cup {"markdown"}
    /\ phase' = "cache"
    /\ UNCHANGED <<envVars, loadVars, outcome, raised, df, viewVars, chartVars>>

\* Line 31, the call of load_data() enters st.cache_data's wrapper: the
\* stored value, if it is young enough, is what the call returns; otherwise
\* the run goes to compute the value, for which it needs the lock.
Lookup ==
    /\ phase = "cache"
    /\ IF cache_hit(cache, clock)
       THEN /\ loaded' = Some(cache.value)
            /\ phase' = "cache_exit"
       ELSE /\ loaded' = loaded
            /\ phase' = "lock"
    /\ UNCHANGED <<envVars, contacted, answered, last_error, outcome, raised, df,
                   viewVars, chartVars, emitted>>

\* The wrapper takes the lock when nobody holds it and looks again: the
\* other session may have stored a value in the meantime, which is then
\* returned; otherwise the function body starts (urls, last_error = None;
\* lines 15-19).
Acquire ==
    /\ phase = "lock"
    /\ lock = 0
    /\ IF cache_hit(cache, clock)
       THEN /\ loaded' = Some(cache.value)
            /\ lock' = 0
            /\ phase' = "cache_exit"
       ELSE /\ loaded' = loaded
            /\ lock' = 1
            /\ phase' = "request"
    /\ UNCHANGED <<clock, ticks, net, cache, replaced, peer, contacted, answered,
                   last_error, outcome, raised, df, viewVars, chartVars, emitted>>

\* Lines 21-29 for the next candidate: the request gets what the candidate
\* answers at this moment; then return df, the next url, or the raise.  The
\* raise leaves the wrapper's locked block: the lock is free again and the
\* exception is on its way out of the wrapper.
Request ==
    /\ phase = "request"
    /\ LET i == Len(contacted) + 1
           t == try_url(net[i])
           todo == after_try(t, i)
       IN /\ contacted' = Append(contacted, urls[i])
          /\ answered' = Append(answered, net[i])
          /\ last_error' = IF t.ok THEN last_error
                           ELSE except_clause(last_error, t, urls[i])
          /\ loaded' = IF t.ok THEN Some(t.df) ELSE loaded
          /\ phase' = IF todo = "return" THEN "store"
                      ELSE IF todo = "next" THEN "request" ELSE "cache_exit"
          /\ raised' = IF todo = "raise" THEN RuntimeError(last_error') ELSE raised
          /\ lock' = IF todo = "raise" THEN 0 ELSE lock
    /\ UNCHANGED <<clock, ticks, net, cache, replaced, peer, outcome, df, viewVars,
                   chartVars, emitted>>

\* load_data returned: still inside the wrapper, with the lock held,
\* st.cache_data writes the value and the time of writing into the slot in
\* one assignment, and frees the lock.
Store ==
    /\ phase = "store"
    /\ cache' = [has |-> TRUE, value |-> loaded[1], stamp |-> clock]
    /\ replaced' = cache
    /\ lock' = 0
    /\ phase' = "cache_exit"
    /\ UNCHANGED <<clock, ticks, net, peer, loadVars, outcome, raised, df, viewVars,
                   chartVars, emitted>>

\* The wrapper is left (its spinner is cleared, once more a call into
\* Streamlit): load_data's exception ends the run, or the value is assigned
\* to df (line 31) and the script goes on to the selectbox (lines 34-35).
Return ==
    /\ phase = "cache_exit"
    /\ IF raised # NoException
       THEN /\ outcome' = "raised"
            /\ phase' = "ran"
            /\ df' = df
       ELSE /\ outcome' = outcome
            /\ phase' = "selectbox"
            /\ df' = loaded[1]
    /\ UNCHANGED <<envVars, loadVars, raised, viewVars, chartVars, emitted>>

\* Lines 37-41 with the selectbox returning country, then lines 43-44.
select(country) ==
    /\ phase = "selectbox"
    /\ selected_country' = country
    /\ emitted' = emitted \cup {"selectbox"}
    /\ phase' = "date_input"
    /\ UNCHANGED <<envVars, loadVars, outcome, raised, df, date_range, start_date,
                   end_date, filtered_df, chartVars>>

\* Lines 46-51 with date_input returning dr, then lines 54-66 up to the
\* entry of st.warning or st.columns.  When no row has a date, min_date and
\* max_date are NaT, which date_input cannot take as its value or its
\* bounds.  iloc[-1] on a frame without rows raises IndexError.
date_input(dr) ==
    /\ phase = "date_input"
    /\ IF isna(min_date(df))
       THEN /\ raised' = [type |-> "ValueError", line |-> 46, cause |-> Missing]
            /\ outcome' = "raised"
            /\ phase' = "ran"
            /\ UNCHANGED <<date_range, start_date, end_date, filtered_df, latest, emitted>>
       ELSE
       /\ date_range' = dr
       /\ emitted' = emitted \cup {"date_input"}
       /\ IF unpack_raises(dr)
          THEN /\ raised' = [type |-> "ValueError", line |-> 54, cause |-> Missing]
               /\ outcome' = "raised"
               /\ phase' = "ran"
               /\ UNCHANGED <<start_date, end_date, filtered_df, latest>>
          ELSE
          LET s == unpack(dr)[1]
              e == unpack(dr)[2]
              view == filtered_df_of(df, selected_country, s, e)
          IN /\ start_date' = Some(s)
             /\ end_date' = Some(e)
             /\ filtered_df' = view
             /\ IF empty(view)
                THEN /\ phase' = "warning"
                     /\ UNCHANGED <<raised, outcome, latest>>
                ELSE IF view = <<>>
                THEN /\ raised' = [type |-> "IndexError", line |-> 66, cause |-> Missing]
                     /\ outcome' = "raised"
                     /\ phase' = "ran"
                     /\ UNCHANGED latest
                ELSE /\ \E row \in latest_of(view) : latest' = Some(row)
                     /\ phase' = "columns"
                     /\ UNCHANGED <<raised, outcome>>
    /\ UNCHANGED <<envVars, loadVars, df, selected_country, latest_all, top10, scatter_df>>

\* The first run of a session: both controls return their defaults.
FirstSelect == select(selectbox_default(countries(df)))

FirstDateInput == date_input(date_input_default(df))

\* Any later run: the controls return what the user has set.
Select == \E country \in selectbox_values(countries(df)) : select(country)

DateInput == \E dr \in date_input_values(df) : date_input(dr)

\* Lines 63-64: st.warning, then st.stop().
Warning ==
    /\ phase = "warning"
    /\ emitted' = emitted \cup {"warning"}
    /\ outcome' = "stopped"
    /\ phase' = "ran"
    /\ UNCHANGED <<envVars, loadVars, raised, df, viewVars, chartVars>>

\* Line 69: st.columns, then lines 71-73.
Columns ==
    /\ phase = "columns"
    /\ emitted' = emitted \cup {"columns"}
    /\ phase' = "metric1"
    /\ UNCHANGED <<envVars, loadVars, outcome, raised, df, viewVars, chartVars>>

\* Lines 75-77: the three KPI tiles, one call each; after the third,
\* lines 80-85 up to the entry of st.plotly_chart.
Metric ==
    /\ phase \in {"metric1", "metric2", "metric3"}
    /\ emitted' = emitted \cup {phase}
    /\ phase' = IF phase = "metric1" THEN "metric2"
                ELSE IF phase = "metric2" THEN "metric3" ELSE "area_chart"
    /\ UNCHANGED <<envVars, loadVars, outcome, raised, df, viewVars, chartVars>>

\* Line 86: the area chart is sent; then lines 89-100, the snapshot and the
\* ranking, up to the entry of the next st.plotly_chart.
AreaChart ==
    /\ phase = "area_chart"
    /\ emitted' = emitted \cup {"area_chart"}
    /\ \E snapshot \in latest_all_of(df) :
          /\ latest_all' = snapshot
          /\ \E ranking \in top10_of(snapshot) : top10' = ranking
    /\ phase' = "bar_chart"
    /\ UNCHANGED <<envVars, loadVars, outcome, raised, df, viewVars, latest, scatter_df>>

\* Line 101: the bar chart is sent; then lines 104-116, the scatter set.
BarChart ==
    /\ phase = "bar_chart"
    /\ emitted' = emitted \cup {"bar_chart"}
    /\ scatter_df' = scatter_df_of(latest_all)
    /\ phase' = "scatter_chart"
    /\ UNCHANGED <<envVars, loadVars, outcome, raised, df, viewVars, latest, latest_all,
                   top10>>

\* Line 117: the scatter chart is sent.
ScatterChart ==
    /\ phase = "scatter_chart"
    /\ emitted' = emitted \cup {"scatter_chart"}
    /\ phase' = "subheader"
    /\ UNCHANGED <<envVars, loadVars, outcome, raised, df, viewVars, chartVars>>

\* Line 120: st.subheader.
Subheader ==
    /\ phase = "subheader"
    /\ emitted' = emitted \cup {"subheader"}
    /\ phase' = "dataframe"
    /\ UNCHANGED <<envVars, loadVars, outcome, raised, df, viewVars, chartVars>>

\* Line 121: st.dataframe(filtered_df.head(50)), the last line of the script.
Dataframe ==
    /\ phase = "dataframe"
    /\ emitted' = emitted \cup {"dataframe"}
    /\ outcome' = "rendered"
    /\ phase' = "ran"
    /\ UNCHANGED <<envVars, loadVars, raised, df, viewVars, chartVars>>

\* The st.* calls of the script body (after line 31), by the phase in which
\* the run is about to enter them.
BodyPhases == {"selectbox", "date_input", "warning", "columns", "metric1", "metric2",
               "metric3", "area_chart", "bar_chart", "scatter_chart", "subheader",
               "dataframe"}

\* Every point at which Streamlit can stop the run for a newer one: the
\* entry of each st.* call, and the entry and the exit of the cached
\* function's wrapper (its spinner is an element put up and cleared).
StopPoints == {"title", "markdown", "cache", "cache_exit"} \cup BodyPhases

----
\* First page load on a cold cache, for every pair of answers the two
\* candidates can give, and every change of an answer before its request.

MaxLoadRows == 2

LoadDateTexts == {"2020-01-01", "2020-01-02", "", "not-a-date"}

\* India's rows with every kind of date text, and one row of World.
LoadRows ==
    {Row(Some("India"), t, Missing, Missing, Missing, Missing) : t \in LoadDateTexts}
    \cup {Row(Some("World"), "2020-01-01", Missing, Missing, Missing, Missing)}

LoadResponses ==
    {Response(FALSE, 0, FALSE, <<>>), Response(TRUE, 404, FALSE, <<>>),
     Response(TRUE, 500, FALSE, <<>>), Response(TRUE, 200, FALSE, <<>>)}
    \cup {Response(TRUE, 200, TRUE, rows) : rows \in SeqsUpTo(LoadRows, MaxLoadRows)}

InitLoad ==
    /\ clock = 0
    /\ ticks = 0
    /\ cache = NoCache
    /\ replaced = NoCache
    /\ lock = 0
    /\ peer = NoCall
    /\ net \in [1..Len(urls) -> LoadResponses]
    /\ phase = "queued"
    /\ InitRun

\* While load_data is at work, a candidate not yet requested changes its answer.
LoadUpstream ==
    /\ phase = "request"
    /\ \E i \in (Len(contacted) + 1)..Len(urls), resp \in LoadResponses :
          /\ resp # net[i]
          /\ net' = [net EXCEPT ![i] = resp]
    /\ UNCHANGED <<clock, ticks, cache, replaced, lock, peer, phase, loadVars, outcome,
                   raised, df, viewVars, chartVars, emitted>>

NextLoad ==
    \/ LoadUpstream
    \/ Begin
    \/ Title
    \/ Markdown
    \/ Lookup
    \/ Acquire
    \/ Request
    \/ Store
    \/ Return
    \/ FirstSelect
    \/ FirstDateInput
    \/ Warning
    \/ Columns
    \/ Metric
    \/ AreaChart
    \/ BarChart
    \/ ScatterChart
    \/ Subheader
    \/ Dataframe

SpecLoad == InitLoad /\ [][NextLoad]_vars

----
\* A server session: time passes, the two candidates change what they answer
\* (the feed publishes a new day, a host goes down or comes back), and the
\* script re-runs whenever a control changes or a page is opened.

MaxTicks == 2

MaxVersion == 2

\* The table the feed publishes on day v: India's rows up to day v, and
\* the World aggregate, which is only reported for day 1.
Feed(v) ==
    [d \in 1..v |-> Row(Some("India"), IsoDates[d], Some(d), Missing, Some(d), Some(d))]
    \o <<Row(Some("World"), IsoDates[1], Some(9), Some(1), Missing, Some(9))>>

\* Both candidates mirror the same feed; each host is up or down on its own.
SessionAnswer(v, up) ==
    IF up THEN Response(TRUE, 200, TRUE, Feed(v)) ELSE Response(FALSE, 0, FALSE, <<>>)

SessionNets ==
    {[i \in 1..Len(urls) |-> SessionAnswer(v, up[i])] :
        v \in 1..MaxVersion, up \in [1..Len(urls) -> BOOLEAN]}

Init ==
    /\ clock = 0
    /\ ticks = 0
    /\ cache = NoCache
    /\ replaced = NoCache
    /\ lock = 0
    /\ peer = NoCall
    /\ net = [i \in 1..Len(urls) |-> Response(TRUE, 200, TRUE, Feed(1))]
    /\ phase = "idle"
    /\ InitRun

runVars == <<phase, contacted, answered, last_error, loaded, outcome, raised, df,
             selected_country, date_range, start_date, end_date, filtered_df, latest,
             latest_all, top10, scatter_df, emitted>>

\* Time passes: a second, or a second short of the ttl.
Tick ==
    /\ ticks < MaxTicks
    /\ \E d \in {1, ttl - 1} : clock' = clock + d
    /\ ticks' = ticks + 1
    /\ UNCHANGED <<net, cache, replaced, lock, peer>>
    /\ UNCHANGED runVars

\* The feed publishes another day, or a host goes down or comes back.
Upstream ==
    /\ \E n \in SessionNets :
          /\ n # net
          /\ net' = n
    /\ UNCHANGED <<clock, ticks, cache, replaced, lock, peer>>
    /\ UNCHANGED runVars

\* A page is opened or a control is changed while no run is under way: the
\* script is queued to run.
Trigger ==
    /\ phase \in {"idle", "ran"}
    /\ phase' = "queued"
    /\ UNCHANGED <<envVars, loadVars, outcome, raised, df, viewVars, chartVars, emitted>>

\* A control is changed during the run: Streamlit stops the run at the
\* stop point it reaches next, before that call sends anything, and queues
\* a new run.  A run stopped at the wrapper's exit has its value in the
\* slot but not in df, or loses the exception that was on its way out.
Interrupt ==
    /\ phase \in StopPoints
    /\ phase' = "queued"
    /\ UNCHANGED <<envVars, loadVars, outcome, raised, df, viewVars, chartVars, emitted>>

\* The other session's call of load_data(), the same wrapper around the
\* same function: lookup, lock, second lookup, lines 15-29, write.
PeerLookup ==
    /\ peer.phase \in {"idle", "done"}
    /\ peer' = IF cache_hit(cache, clock)
               THEN [phase |-> "done", contacted |-> <<>>, loaded |-> Some(cache.value)]
               ELSE [phase |-> "lock", contacted |-> <<>>, loaded |-> Missing]
    /\ UNCHANGED <<clock, ticks, net, cache, replaced, lock>>
    /\ UNCHANGED runVars

PeerAcquire ==
    /\ peer.phase = "lock"
    /\ lock = 0
    /\ IF cache_hit(cache, clock)
       THEN /\ peer' = [peer EXCEPT !.phase = "done", !.loaded = Some(cache.value)]
            /\ lock' = 0
       ELSE /\ peer' = [peer EXCEPT !.phase = "request"]
            /\ lock' = 2
    /\ UNCHANGED <<clock, ticks, net, cache, replaced>>
    /\ UNCHANGED runVars

PeerRequest ==
    /\ peer.phase = "request"
    /\ LET i == Len(peer.contacted) + 1
           t == try_url(net[i])
           todo == after_try(t, i)
       IN /\ peer' = [phase |-> IF todo = "return" THEN "store"
                                ELSE IF todo = "next" THEN "request" ELSE "done",
                      contacted |-> Append(peer.contacted, urls[i]),
                      loaded |-> IF t.ok THEN Some(t.df) ELSE peer.loaded]
          /\ lock' = IF todo = "raise" THEN 0 ELSE lock
    /\ UNCHANGED <<clock, ticks, net, cache, replaced>>
    /\ UNCHANGED runVars

PeerStore ==
    /\ peer.phase = "store"
    /\ cache' = [has |-> TRUE, value |-> peer.loaded[1], stamp |-> clock]
    /\ replaced' = cache
    /\ lock' = 0
    /\ peer' = [peer EXCEPT !.phase = "done"]
    /\ UNCHANGED <<clock, ticks, net>>
    /\ UNCHANGED runVars

Next ==
    \/ Tick
    \/ Upstream
    \/ Trigger
    \/ Interrupt
    \/ PeerLookup
    \/ PeerAcquire
    \/ PeerRequest
    \/ PeerStore
    \/ Begin
    \/ Title
    \/ Markdown
    \/ Lookup
    \/ Acquire
    \/ Request
    \/ Store
    \/ Return
    \/ Select
    \/ DateInput
    \/ Warning
    \/ Columns
    \/ Metric
    \/ AreaChart
    \/ BarChart
    \/ ScatterChart
    \/ Subheader
    \/ Dataframe

Spec == Init /\ [][Next]_vars

----
\* What the loader's contract says of a candidate, stated on the answer alone.

IsoDay(text) == CHOOSE d \in 1..Len(IsoDates) : IsoDates[d] = text

\* The candidate answers, with a success status, a well-formed table whose
\* date texts are all calendar dates or blank.
CandidateSucceeds(resp) ==
    /\ resp.reachable
    /\ resp.status = 200
    /\ resp.wellformed
    /\ \A k \in 1..Len(resp.rows) : resp.rows[k].date \in Range(IsoDates) \cup {""}

CandidateFailure(resp) ==
    IF ~resp.reachable THEN "ConnectionError"
    ELSE IF resp.status # 200 THEN "HTTPError"
    ELSE IF ~resp.wellformed THEN "ParserError"
    ELSE "ValueError"

\* frame is the table of rows, dates as calendar days, nothing else changed.
IsParsed(frame, rows) ==
    /\ Len(frame) = Len(rows)
    /\ \A k \in 1..Len(rows) :
         /\ \A c \in MetricColumns \cup {"location"} : frame[k][c] = rows[k][c]
         /\ rows[k].date = "" => isna(frame[k].date)
         /\ rows[k].date \in Range(IsoDates) => frame[k].date = Some(IsoDay(rows[k].date))

PageElementsAfterLoad ==
    {"selectbox", "date_input", "warning", "columns", "metric1", "metric2", "metric3",
     "area_chart", "bar_chart", "scatter_chart", "subheader", "dataframe"}

\* load_data has handed a table to the script.
LoadReturned ==
    /\ phase \notin {"idle", "queued", "title", "markdown", "cache", "lock", "request",
                     "store", "cache_exit"}
    /\ raised.type # "RuntimeError"

\* C1: the candidates are requested in list order, each once, and none after
\* one has succeeded; when a request is answered with a success the load ends
\* there, the call returns that answer's parsed table, the run works on it,
\* and load_data's error is not raised; and a table is only ever returned
\* from such an answer.
C1_FirstSuccessWins ==
    /\ contacted = SubSeq(urls, 1, Len(contacted))
    /\ Len(answered) = Len(contacted)
    /\ \A i \in 1..(Len(answered) - 1) : ~CandidateSucceeds(answered[i])
    /\ (Len(answered) > 0 /\ CandidateSucceeds(answered[Len(answered)])) =>
          /\ phase # "request"
          /\ notna(loaded)
          /\ IsParsed(loaded[1], answered[Len(answered)].rows)
          /\ raised.type # "RuntimeError"
    /\ LoadReturned =>
          /\ Len(answered) > 0
          /\ CandidateSucceeds(answered[Len(answered)])
          /\ df = loaded[1]

\* Candidate 1 failed, candidate 2 then answered a non-empty table, and the
\* run ended with it.
C1_Witness ==
    /\ phase = "ran"
    /\ contacted = urls
    /\ ~CandidateSucceeds(answered[1])
    /\ CandidateSucceeds(answered[2])
    /\ Len(answered[2].rows) = MaxLoadRows
    /\ IsParsed(df, answered[2].rows)
    /\ raised.type # "RuntimeError"

\* C2: load_data raises exactly when every candidate has been requested and
\* has failed; the error then carries the failure of the last candidate, it
\* ends the run as soon as the call is left, no table is returned or stored
\* and nothing after line 31 runs.
C2_FailsIffAllFail ==
    /\ (raised.type = "RuntimeError") <=>
           /\ Len(answered) = Len(urls)
           /\ \A i \in 1..Len(urls) : ~CandidateSucceeds(answered[i])
    /\ raised.type = "RuntimeError" =>
           /\ raised.line = 29
           /\ raised.cause = Some([type |-> CandidateFailure(answered[Len(urls)]),
                                   url |-> urls[Len(urls)]])
           /\ phase \in {"cache_exit", "ran"}
           /\ (phase = "ran") <=> (outcome = "raised")
           /\ isna(loaded)
           /\ df = <<>>
           /\ filtered_df = <<>> /\ latest_all = <<>> /\ top10 = <<>>
           /\ scatter_df = <<>>
           /\ emitted \cap PageElementsAfterLoad = {}
           /\ ~cache.has

\* Both candidates failed, each in its own way, and the run has ended.
C2_Witness ==
    /\ phase = "ran"
    /\ outcome = "raised"
    /\ raised.type = "RuntimeError"
    /\ ~answered[1].reachable
    /\ answered[2].reachable /\ answered[2].status = 200 /\ answered[2].wellformed
    /\ raised.cause = Some([type |-> "ValueError", url |-> urls[2]])

\* C9: after a successful load every record of the table has a date, and an
\* answer with a row whose date is blank is not taken as a success.
C9_EveryRecordHasDate ==
    LoadReturned =>
        /\ \A k \in 1..Len(df) : notna(df[k].date)
        /\ \A k \in 1..Len(answered[Len(answered)].rows) :
              answered[Len(answered)].rows[k].date # ""

\* The stored table is younger than the ttl.
Fresh == cache.has /\ clock - cache.stamp < ttl

IsFeedTable(frame) == \E v \in 1..MaxVersion : IsParsed(frame, Feed(v))

MatchingRows ==
    {k \in 1..Len(df) :
        /\ notna(df[k].location)
        /\ df[k].location = selected_country
        /\ notna(df[k].date)
        /\ start_date[1] <= df[k].date[1]
        /\ df[k].date[1] <= end_date[1]}

RenderedElements ==
    {"columns", "metric1", "metric2", "metric3", "area_chart", "bar_chart",
     "scatter_chart", "subheader", "dataframe"}

RenderPhases ==
    {"columns", "metric1", "metric2", "metric3", "area_chart", "bar_chart",
     "scatter_chart", "subheader", "dataframe"}

\* C8: from the moment the filter has been computed, in every run, an empty
\* view means that no KPI, chart or preview is ever put on the page, that
\* no latest row, snapshot, ranking or scatter set is computed and that no
\* exception is raised: the script is at st.warning, and at its end it has
\* warned and stopped; a view with rows means that the warning is never
\* put on the page and no exception is raised: the script is on its way
\* through the KPIs, the charts and the preview, and at its end it has
\* produced them all.  A run Streamlit has set aside for a newer one is
\* the only run that ends anywhere else, and it too has put out nothing
\* of the other branch.
C8_EmptyViewStops ==
    (notna(start_date) /\ notna(end_date)) =>
        /\ MatchingRows = {} =>
              /\ emitted \cap RenderedElements = {}
              /\ isna(latest)
              /\ latest_all = <<>> /\ top10 = <<>> /\ scatter_df = <<>>
              /\ raised = NoException
              /\ phase \in {"warning", "ran", "queued"}
              /\ phase = "warning" => "warning" \notin emitted
              /\ phase = "ran" => ("warning" \in emitted /\ outcome = "stopped")
        /\ MatchingRows # {} =>
              /\ "warning" \notin emitted
              /\ notna(latest)
              /\ raised = NoException
              /\ outcome # "stopped"
              /\ phase \in RenderPhases \cup {"ran", "queued"}
              /\ phase = "ran" =>
                    /\ RenderedElements \subseteq emitted
                    /\ latest_all # <<>>
                    /\ outcome = "rendered"

\* The selected country is in the table, the range is in order, and no row
\* of that country lies in it.
C8_Witness ==
    /\ phase = "ran"
    /\ notna(start_date) /\ notna(end_date)
    /\ start_date[1] <= end_date[1]
    /\ \E k \in 1..Len(df) : df[k].location = selected_country
    /\ MatchingRows = {}
    /\ emitted = {"title", "markdown", "selectbox", "date_input", "warning"}

\* C10: whichever value the date-range control hands back (a bare date, a
\* tuple of one date, a tuple of two), the run assigns start_date and
\* end_date and raises nothing at line 54.
C10_DateRangeAlwaysUnpacks ==
    (phase = "ran" /\ "date_input" \in emitted /\ Len(date_range.dates) \in {1, 2}) =>
        /\ raised = NoException
        /\ start_date = Some(date_range.dates[1])
        /\ end_date = Some(date_range.dates[Len(date_range.dates)])

----
\* The filter, the snapshot and the ranking on their own, each applied to
\* every table of a bounded family.

NoAnswers == [i \in 1..Len(urls) |-> Response(FALSE, 0, FALSE, <<>>)]

InitPure ==
    /\ clock = 0
    /\ ticks = 0
    /\ cache = NoCache
    /\ replaced = NoCache
    /\ lock = 0
    /\ peer = NoCall
    /\ net = NoAnswers
    /\ phase = "idle"
    /\ contacted = <<>>
    /\ answered = <<>>
    /\ last_error = Missing
    /\ loaded = Missing
    /\ outcome = "none"
    /\ raised = NoException
    /\ date_range = DateRange(TRUE, <<>>)
    /\ latest = Missing
    /\ emitted = {}

MaxFilterRows == 3

FilterDays == 1..3

FilterCells(S) == {Missing} \cup {Some(x) : x \in S}

FilterFrames ==
    SeqsUpTo({Row(l, d, Missing, Missing, Missing, Missing) :
                 l \in FilterCells({"India", "World"}), d \in FilterCells(FilterDays)},
             MaxFilterRows)

InitFilter ==
    /\ InitPure
    /\ df \in FilterFrames
    /\ selected_country = Missing
    /\ start_date = Missing
    /\ end_date = Missing
    /\ filtered_df = <<>>
    /\ latest_all = <<>>
    /\ top10 = <<>>
    /\ scatter_df = <<>>

\* Lines 56-60 for one choice of country and range.
Filter ==
    /\ phase = "idle"
    /\ \E country \in {Some(n) : n \in {"Fiji", "India", "World"}},
          s \in FilterDays, e \in FilterDays :
            /\ selected_country' = country
            /\ start_date' = Some(s)
            /\ end_date' = Some(e)
            /\ filtered_df' = filtered_df_of(df, country, s, e)
    /\ phase' = "ran"
    /\ UNCHANGED <<envVars, loadVars, outcome, raised, df, date_range, chartVars, emitted>>

NextFilter == Filter

SpecFilter == InitFilter /\ [][NextFilter]_vars

\* The j-th row of df, in table order, that matches the selection.
NthMatch(j) == CHOOSE k \in MatchingRows : Cardinality({m \in MatchingRows : m <= k}) = j

\* C4: the view holds exactly the rows of the table whose location is the
\* selected country and whose date lies in [start, end], bounds included:
\* each such row once, in table order, and no other row.
C4_FilterExact ==
    phase = "ran" =>
        /\ Len(filtered_df) = Cardinality(MatchingRows)
        /\ \A j \in 1..Len(filtered_df) : filtered_df[j] = df[NthMatch(j)]

\* A row on each bound of the range is kept and another row is dropped.
C4_Witness ==
    /\ phase = "ran"
    /\ start_date[1] < end_date[1]
    /\ Len(df) = MaxFilterRows
    /\ Len(filtered_df) = 2
    /\ filtered_df[1].date = end_date
    /\ filtered_df[2].date = start_date

MaxSnapshotRows == 3

SnapshotFrames ==
    SeqsUpTo({Row(l, d, Missing, Missing, Missing, m) :
                 l \in FilterCells({"India", "World"}), d \in FilterCells(1..2),
                 m \in FilterCells({1, 2})},
             MaxSnapshotRows)

InitSnapshot ==
    /\ InitPure
    /\ df \in SnapshotFrames
    /\ selected_country = Missing
    /\ start_date = Missing
    /\ end_date = Missing
    /\ filtered_df = <<>>
    /\ latest_all = <<>>
    /\ top10 = <<>>
    /\ scatter_df = <<>>

\* Line 89, for each order the sort can leave rows of one date in.
Snapshot ==
    /\ phase = "idle"
    /\ \E snapshot \in latest_all_of(df) : latest_all' = snapshot
    /\ phase' = "ran"
    /\ UNCHANGED <<envVars, loadVars, outcome, raised, df, viewVars, latest, top10,
                   scatter_df, emitted>>

NextSnapshot == Snapshot

SpecSnapshot == InitSnapshot /\ [][NextSnapshot]_vars

LocationsIn(frame) ==
    {frame[k].location[1] : k \in {i \in 1..Len(frame) : notna(frame[i].location)}}

RowsOf(frame, name) == {k \in 1..Len(frame) : frame[k].location = Some(name)}

DatesOf(frame, name) ==
    {frame[k].date[1] : k \in {i \in RowsOf(frame, name) : notna(frame[i].date)}}

\* C5: the snapshot has exactly one record for each location of the table
\* and none for any other location, and the record's date is the latest
\* date among that location's rows (no date when none of them has one).
C5_OneLatestPerLocation ==
    phase = "ran" =>
        /\ \A n \in LocationsIn(df) : Cardinality(RowsOf(latest_all, n)) = 1
        /\ \A i \in 1..Len(latest_all) :
              /\ notna(latest_all[i].location)
              /\ latest_all[i].location[1] \in LocationsIn(df)
              /\ LET dates == DatesOf(df, latest_all[i].location[1]) IN
                 IF dates = {} THEN isna(latest_all[i].date)
                 ELSE /\ notna(latest_all[i].date)
                      /\ latest_all[i].date[1] \in dates
                      /\ \A d \in dates : d <= latest_all[i].date[1]

\* Two locations; one has its later row first in the table.
C5_Witness ==
    /\ phase = "ran"
    /\ Len(df) = MaxSnapshotRows
    /\ Len(latest_all) = 2
    /\ \E i, j \in 1..Len(df) :
          /\ i < j
          /\ df[i].location = df[j].location /\ notna(df[i].location)
          /\ notna(df[i].date) /\ notna(df[j].date)
          /\ df[i].date[1] > df[j].date[1]
          /\ \E k \in 1..Len(latest_all) :
                /\ latest_all[k].location = df[i].location
                /\ latest_all[k].date = df[i].date

\* No two rows of the table share a location and a date, and every row has both.
UniqueLocationDate(frame) ==
    /\ \A k \in 1..Len(frame) : notna(frame[k].location) /\ notna(frame[k].date)
    /\ \A i, j \in 1..Len(frame) :
          (frame[i].location = frame[j].location /\ frame[i].date = frame[j].date)
              => i = j

\* C6: the snapshot's record for a location is that location's row with the
\* latest date, field by field, a missing metric included.
C6_SnapshotIsLatestRecord ==
    (phase = "ran" /\ UniqueLocationDate(df)) =>
        \A i \in 1..Len(latest_all) :
            \E k \in RowsOf(df, latest_all[i].location[1]) :
                /\ \A j \in RowsOf(df, latest_all[i].location[1]) :
                      df[j].date[1] <= df[k].date[1]
                /\ \A c \in ValueColumns : latest_all[i][c] = df[k][c]

\* The snapshots the ranking is tried on: ten countries and a few more, and
\* the World aggregate.  The first countries have metrics all different;
\* the last few take theirs from a small set, so that they tie with each
\* other and with the first country; the countries past the tenth and World
\* may lack the metric.
SpareCountries == 2

RankedCountries == SubSeq(LocOrder, 1, 10 + SpareCountries)

\* Every snapshot of the ranked countries and World in which the first
\* few countries lack the metric (any number of them, so that fewer than
\* ten, exactly ten or more than ten records may be ranked), the next ones
\* have metrics of their own, the ones from the ninth on have any of three
\* metrics or none, and World has the greatest metric or none.
RankingSnapshots ==
    LET n == Len(RankedCountries)
        tied == (n - SpareCountries - 1)..n
    IN {[i \in 1..(n + 1) |->
            IF i \in tied
            THEN Row(Some(RankedCountries[i]), Some(1), Missing, Missing, Missing, m[i])
            ELSE IF i <= n
            THEN Row(Some(RankedCountries[i]), Some(1), Missing, Missing, Missing,
                     IF i <= lacking THEN Missing ELSE Some(10 + i))
            ELSE Row(Some("World"), Some(1), Missing, Missing, Missing, w)] :
        lacking \in 0..(n - SpareCountries - 2),
        m \in [tied -> FilterCells({1, 2, 11})],
        w \in {Missing, Some(20 + n)}}

InitRanking ==
    /\ InitPure
    /\ latest_all \in RankingSnapshots
    /\ df = <<>>
    /\ selected_country = Missing
    /\ start_date = Missing
    /\ end_date = Missing
    /\ filtered_df = <<>>
    /\ top10 = <<>>
    /\ scatter_df = <<>>

\* Lines 92-93, for each order the sort can leave equal metrics in.
Ranking ==
    /\ phase = "idle"
    /\ \E ranking \in top10_of(latest_all) : top10' = ranking
    /\ phase' = "ran"
    /\ UNCHANGED <<envVars, loadVars, outcome, raised, df, viewVars, latest, latest_all,
                   scatter_df, emitted>>

NextRanking == Ranking

SpecRanking == InitRanking /\ [][NextRanking]_vars

\* The snapshot records that may be ranked: metric present, not World.
Rankable == {k \in 1..Len(latest_all) :
                /\ notna(latest_all[k].total_deaths_per_million)
                /\ latest_all[k].location # Some("World")}

\* C7: the ranking has at most 10 records (10, or all that may be ranked
\* when they are fewer), each a snapshot record with the metric present and
\* a location other than World, no record twice, in non-increasing order of
\* the metric; every record left out that may be ranked has a metric no
\* greater than any in the ranking.
C7_Top10 ==
    phase = "ran" =>
        /\ Len(top10) <= 10
        /\ Len(top10) = Min2(10, Cardinality(Rankable))
        /\ \A j \in 1..Len(top10) :
              /\ notna(top10[j].total_deaths_per_million)
              /\ top10[j].location # Some("World")
              /\ \E k \in Rankable : latest_all[k] = top10[j]
        /\ \A i, j \in 1..Len(top10) : i # j => top10[i].location # top10[j].location
        /\ \A j \in 1..(Len(top10) - 1) :
              top10[j].total_deaths_per_million[1]
                  >= top10[j + 1].total_deaths_per_million[1]
        /\ \A k \in Rankable :
              (\A j \in 1..Len(top10) : top10[j] # latest_all[k]) =>
                  \A j \in 1..Len(top10) :
                      latest_all[k].total_deaths_per_million[1]
                          <= top10[j].total_deaths_per_million[1]

\* Fewer than ten records may be ranked: records that come first in the
\* snapshot lack the metric, World has the greatest one, and the ranking is
\* all the records that may be ranked, two of them with the same metric.
C7_Witness ==
    /\ phase = "ran"
    /\ Cardinality(Rankable) < 10
    /\ Len(top10) = Cardinality(Rankable)
    /\ Len(top10) >= 3
    /\ isna(latest_all[1].total_deaths_per_million)
    /\ \E k \in 1..Len(latest_all) :
          /\ latest_all[k].location = Some("World")
          /\ notna(latest_all[k].total_deaths_per_million)
    /\ top10[1].total_deaths_per_million[1] > top10[Len(top10)].total_deaths_per_million[1]
    /\ \E i, j \in 1..Len(top10) :
          /\ i < j
          /\ top10[i].total_deaths_per_million = top10[j].total_deaths_per_million
          /\ \E k, l \in Rankable :
                k > l /\ latest_all[k] = top10[i] /\ latest_all[l] = top10[j]

\* More than ten records may be ranked, World has the metric, a record lacks
\* it, and a record left out ties with the last of the ranking, which in
\* turn comes before it in the snapshot's order.
TieAtTheCut ==
    /\ phase = "ran"
    /\ Cardinality(Rankable) > 10
    /\ Len(top10) = 10
    /\ \E k \in 1..Len(latest_all) :
          /\ latest_all[k].location = Some("World")
          /\ notna(latest_all[k].total_deaths_per_million)
    /\ \E k \in 1..Len(latest_all) : isna(latest_all[k].total_deaths_per_million)
    /\ top10[1].total_deaths_per_million[1] > top10[10].total_deaths_per_million[1]
    /\ \E k, l \in Rankable :
          /\ k < l
          /\ latest_all[l] = top10[10]
          /\ latest_all[k].total_deaths_per_million = top10[10].total_deaths_per_million
          /\ \A j \in 1..Len(top10) : top10[j] # latest_all[k]

====
